---- MODULE Spec2Model ----
(***************************************************************************)
(* Upgrade assistant status aggregation                                    *)
(* (x-pack/plugins/upgrade_assistant/server/lib/es_migration_apis.ts).     *)
(*                                                                         *)
(* getUpgradeAssistantStatus fetches the deprecation response and the APM  *)
(* index deprecations concurrently, derives the cluster and index warning  *)
(* lists, probes the open/closed state of the indices and computes         *)
(* readyForUpgrade.                                                        *)
(*                                                                         *)
(* Messages are sequences of words; a JavaScript object is the sequence of *)
(* its (key, value) pairs in Object.keys order; an absent/undefined field  *)
(* is the value Undefined.                                                 *)
(***************************************************************************)
EXTENDS Integers, Sequences, FiniteSets, TLC

VARIABLES
    pc,                    \* position of the invocation
    isCloudEnabled,        \* argument isCloudEnabled
    depState, apmState,    \* the two promises handed to Promise.all
    probeState,            \* the promise of esIndicesStateCheck
    depErr, apmErr, probeErr, \* the failure each collaborator rejected with
    deprecations,          \* resolved value of the '/_migration/deprecations' request
    apmIndexDeprecations,  \* resolved value of getDeprecatedApmIndices
    cluster,               \* const cluster
    indices,               \* const indices (mutated in place by the forEach)
    indexNames,            \* const indexNames, the argument given to the probe
    indexStates,           \* resolved value of esIndicesStateCheck
    depCalls, apmCalls, probeCalls, \* number of calls made to each collaborator
    error,                 \* the failure the invocation rejected with
    result                 \* the returned UpgradeAssistantStatus

vars == <<pc, isCloudEnabled, depState, apmState, probeState, depErr, apmErr,
          probeErr, deprecations, apmIndexDeprecations, cluster, indices,
          indexNames, indexStates, depCalls, apmCalls, probeCalls, error, result>>

----------------------------------------------------------------------------
(* Bounds of the model *)

\* total number of warnings (cluster + index + APM) one invocation receives
MaxWarnings == 3
\* total number of warnings in cluster_settings, ml_settings and node_settings
\* (SpecCluster)
MaxClusterWarnings == 3
\* total number of index_settings warnings plus APM warnings (SpecIndex)
MaxMergeInputs == 3

----------------------------------------------------------------------------
(* Values *)

Undefined == "undefined"
NoError == "none"
Errors == {"errA", "errB"}

Levels == {"critical", "warning"}

MsgRealm == <<"Security", "realm", "settings", "structure", "changed">>
MsgRealmMore == <<"Security", "realm", "settings", "structure", "changed", "twice">>
MsgOther == <<"Cluster", "name", "setting", "deprecated">>
MsgReindex == <<"Index", "created", "before", "7.0">>
MsgReindexLower == <<"index", "created", "before", "7.0">>
MsgFields == <<"Index", "idx:", "Number", "of", "fields", "exceeds", "automatic",
               "field", "expansion", "limit">>
MsgBoth == <<"Index", "created", "before", "6.0;", "Number", "of", "fields", "exceeds",
             "automatic", "field", "expansion", "limit">>
MsgApm == <<"APM", "index", "requires", "conversion", "to", "7.x", "format">>

PatReindex == <<"Index", "created", "before">>
PatFields == <<"Number", "of", "fields", "exceeds", "automatic", "field",
               "expansion", "limit">>

IndexNames == {"idx1", "idx2", ".kibana"}
SystemIndexNames == {".kibana"}

\* RegExp.prototype.test with a literal, unanchored pattern: the pattern occurs
\* somewhere in the message
Contains(msg, pat) ==
    \E i \in 1..(Len(msg) - Len(pat) + 1) : SubSeq(msg, i, i + Len(pat) - 1) = pat

\* isSystemIndex from './reindexing'
isSystemIndex(indexName) == indexName \in SystemIndexNames

RawWarning(l, m) == [level |-> l, message |-> m]

NoResponse ==
    [cluster_settings |-> <<>>, ml_settings |-> <<>>, node_settings |-> <<>>,
     index_settings |-> <<>>]

NoResult == [returned |-> FALSE, readyForUpgrade |-> FALSE, cluster |-> <<>>,
             indices |-> <<>>]

----------------------------------------------------------------------------
(* Array helpers *)

RECURSIVE Flatten(_)
\* reduce((acc, x) => acc.concat(x), [])
Flatten(ss) == IF ss = <<>> THEN <<>> ELSE Head(ss) \o Flatten(Tail(ss))

Range(s) == {s[i] : i \in 1..Len(s)}

----------------------------------------------------------------------------
(* getClusterDeprecations, lines 88-99 *)

getClusterDeprecations_FilterAlways(deps, cloud) ==
    LET combined == deps.cluster_settings \o deps.ml_settings \o deps.node_settings
        Keep(d) == d.message # MsgRealm
    IN  SelectSeq(combined, Keep)

getClusterDeprecations(deps, cloud) ==
    LET combined == deps.cluster_settings \o deps.ml_settings \o deps.node_settings
        Keep(d) == d.message # MsgRealm
    IN  IF cloud THEN SelectSeq(combined, Keep) ELSE combined

----------------------------------------------------------------------------
(* getCombinedIndexInfos, lines 56-86 *)

\* line 60: the set of index names of the APM deprecations
ApmIndexSet(apmDeps) == {apmDeps[i].index : i \in 1..Len(apmDeps)}

GeneralKeys_NoApmFilter(deps, apmIndices) ==
    deps.index_settings

\* lines 63-65: Object.keys(index_settings) without the APM indices
GeneralKeys(deps, apmIndices) ==
    LET NotApm(kv) == kv.name \notin apmIndices
    IN  SelectSeq(deps.index_settings, NotApm)

EnrichWarning_ReindexExact(d, indexName, apmIndices) ==
    [level |-> d.level,
     message |-> d.message,
     index |-> indexName,
     reindex |-> (d.message = PatReindex) /\ indexName \notin apmIndices,
     needsDefaultFields |-> Contains(d.message, PatFields),
     blockerForReindexing |-> Undefined]

EnrichWarning_FieldsFromReindex(d, indexName, apmIndices) ==
    [level |-> d.level,
     message |-> d.message,
     index |-> indexName,
     reindex |-> Contains(d.message, PatReindex) /\ indexName \notin apmIndices,
     needsDefaultFields |-> Contains(d.message, PatReindex),
     blockerForReindexing |-> Undefined]

\* lines 70-77: one raw warning extended with index, reindex, needsDefaultFields
EnrichWarning(d, indexName, apmIndices) ==
    [level |-> d.level,
     message |-> d.message,
     index |-> indexName,
     reindex |-> Contains(d.message, PatReindex) /\ indexName \notin apmIndices,
     needsDefaultFields |-> Contains(d.message, PatFields),
     blockerForReindexing |-> Undefined]

getCombinedIndexInfos_SystemFilterLast(deps, apmDeps) ==
    LET apmIndices == ApmIndexSet(apmDeps)
        keys == GeneralKeys(deps, apmIndices)
        PerIndex(kv) ==
            [i \in 1..Len(kv.warnings) |-> EnrichWarning(kv.warnings[i], kv.name, apmIndices)]
        NotSystem(e) == ~isSystemIndex(e.index)
    IN  SelectSeq(Flatten([k \in 1..Len(keys) |-> PerIndex(keys[k])]) \o apmDeps,
                  NotSystem)

getCombinedIndexInfos(deps, apmDeps) ==
    LET apmIndices == ApmIndexSet(apmDeps)
        keys == GeneralKeys(deps, apmIndices)
        PerIndex(kv) ==
            [i \in 1..Len(kv.warnings) |-> EnrichWarning(kv.warnings[i], kv.name, apmIndices)]
        NotSystem(e) == ~isSystemIndex(e.index)
    IN  SelectSeq(Flatten([k \in 1..Len(keys) |-> PerIndex(keys[k])]), NotSystem)
        \o apmDeps

----------------------------------------------------------------------------
(* Inputs: what the collaborators can resolve with, within a budget *)

\* index_settings listed warning by warning, as <<index name, warning>> pairs:
\* the warnings of one index are adjacent, since an object has each key once
Grouped(flat) ==
    \A i, j, k \in 1..Len(flat) :
        (i < j /\ j < k /\ flat[i][1] = flat[k][1]) => flat[j][1] = flat[i][1]

RECURSIVE IndexSettingsOf(_)
\* the index_settings object of such a listing: one key per index name, in
\* order of first appearance, holding that index's warnings in order
IndexSettingsOf(flat) ==
    IF Len(flat) = 0 THEN <<>>
    ELSE LET n == flat[1][1]
             Mine(p) == p[1] = n
             Others(p) == p[1] # n
             mine == SelectSeq(flat, Mine)
         IN  <<[name |-> n, warnings |-> [i \in 1..Len(mine) |-> mine[i][2]]]>>
             \o IndexSettingsOf(SelectSeq(flat, Others))

\* a response of '/_migration/deprecations'
ResponseOf(c, m, n, flat) ==
    [cluster_settings |-> c, ml_settings |-> m, node_settings |-> n,
     index_settings |-> IndexSettingsOf(flat)]

Size(deps) ==
    Len(deps.cluster_settings) + Len(deps.ml_settings) + Len(deps.node_settings)
    + Len(Flatten([i \in 1..Len(deps.index_settings) |-> deps.index_settings[i].warnings]))

\* EnrichedDeprecationInfo values the APM lookup can supply
ApmWarnings(levels, msgs, flags, blockers) ==
    {[level |-> l, message |-> m, index |-> n, reindex |-> f[1],
      needsDefaultFields |-> f[2], blockerForReindexing |-> b] :
        l \in levels, m \in msgs, n \in IndexNames, f \in flags, b \in blockers}

\* the inputs of one invocation (Spec)
CallClusterWarnings == {RawWarning(l, MsgRealm) : l \in Levels}
CallIndexWarnings == {RawWarning(l, MsgReindex) : l \in Levels}
CallApmWarnings == ApmWarnings(Levels, {MsgApm}, {<<TRUE, FALSE>>}, {Undefined, "index-closed"})

\* index states the probe can report for the names it was asked about;
\* "absent" stands for a name missing from the returned mapping
ProbeResults(names) == [names -> {"open", "close", "absent"}]

----------------------------------------------------------------------------
(* getUpgradeAssistantStatus, lines 14-53 *)

IndexNamesOf_Unique(ixs) ==
    LET FirstOfItsIndex(i) == \A j \in 1..(i - 1) : ixs[j].index # ixs[i].index
        RECURSIVE Pick(_)
        Pick(i) == IF i > Len(ixs) THEN <<>>
                   ELSE IF FirstOfItsIndex(i) THEN <<ixs[i].index>> \o Pick(i + 1)
                   ELSE Pick(i + 1)
    IN  Pick(1)

\* line 30: indices.map(({ index }) => index!)
IndexNamesOf(ixs) == [i \in 1..Len(ixs) |-> ixs[i].index]

ShouldProbe_Always(names) == TRUE

\* line 34: if (indexNames.length)
ShouldProbe(names) == Len(names) # 0

\* indexStates[name]; a missing key reads as undefined ("absent")
StateOf(states, name) == IF name \in DOMAIN states THEN states[name] ELSE "absent"

EnrichWithState_KeepUnlessClosed(ixs, states) ==
    [i \in 1..Len(ixs) |->
        [ixs[i] EXCEPT !.blockerForReindexing =
            IF StateOf(states, ixs[i].index) = "close" THEN "index-closed" ELSE @]]

\* lines 40-43: the forEach assigning blockerForReindexing
EnrichWithState(ixs, states) ==
    [i \in 1..Len(ixs) |->
        [ixs[i] EXCEPT !.blockerForReindexing =
            IF StateOf(states, ixs[i].index) = "close" THEN "index-closed"
            ELSE Undefined]]

\* a cluster warning as an entry of cluster.concat(indices): only level is read
IsCritical(d) == d.level = "critical"

UpgradeStatus_ClusterOnly(cl, ixs) ==
    [returned |-> TRUE,
     readyForUpgrade |-> Len(SelectSeq(cl, IsCritical)) = 0,
     cluster |-> cl,
     indices |-> ixs]

\* lines 46-52: criticalWarnings and the returned object
UpgradeStatus(cl, ixs) ==
    [returned |-> TRUE,
     readyForUpgrade |->
        Len(SelectSeq(cl, IsCritical)) + Len(SelectSeq(ixs, IsCritical)) = 0,
     cluster |-> cl,
     indices |-> ixs]

Init ==
    /\ pc = "init"
    /\ isCloudEnabled \in BOOLEAN
    /\ depState = "idle" /\ apmState = "idle" /\ probeState = "idle"
    /\ depErr = NoError /\ apmErr = NoError /\ probeErr = NoError
    /\ deprecations = NoResponse
    /\ apmIndexDeprecations = <<>>
    /\ cluster = <<>> /\ indices = <<>> /\ indexNames = <<>>
    /\ indexStates = <<>>
    /\ depCalls = 0 /\ apmCalls = 0 /\ probeCalls = 0
    /\ error = NoError
    /\ result = NoResult

\* lines 19-25: both requests are issued and the function awaits Promise.all
Call ==
    /\ pc = "init"
    /\ pc' = "fetching"
    /\ depState' = "pending" /\ depCalls' = depCalls + 1
    /\ apmState' = "pending" /\ apmCalls' = apmCalls + 1
    /\ UNCHANGED <<isCloudEnabled, probeState, depErr, apmErr, probeErr, deprecations,
                   apmIndexDeprecations, cluster, indices, indexNames, indexStates,
                   probeCalls, error, result>>

\* lines 20-23: the deprecations request resolves
DepResolve ==
    /\ depState = "pending"
    /\ \E kc \in 0..(MaxWarnings - Len(apmIndexDeprecations)) :
       \E c \in [1..kc -> CallClusterWarnings] :
       \E km \in 0..(MaxWarnings - Len(apmIndexDeprecations) - kc) :
       \E m \in [1..km -> CallClusterWarnings] :
       \E kn \in 0..(MaxWarnings - Len(apmIndexDeprecations) - kc - km) :
       \E n \in [1..kn -> CallClusterWarnings] :
       \E ki \in 0..(MaxWarnings - Len(apmIndexDeprecations) - kc - km - kn) :
       \E flat \in [1..ki -> IndexNames \X CallIndexWarnings] :
          /\ Grouped(flat)
          /\ deprecations' = ResponseOf(c, m, n, flat)
    /\ depState' = "resolved"
    /\ UNCHANGED <<pc, isCloudEnabled, apmState, probeState, depErr, apmErr, probeErr,
                   apmIndexDeprecations, cluster, indices, indexNames, indexStates,
                   depCalls, apmCalls, probeCalls, error, result>>

\* lines 19-25: the deprecations request rejects; Promise.all rejects with the
\* first rejection and the await rethrows it
DepReject ==
    /\ depState = "pending"
    /\ \E e \in Errors :
          /\ depErr' = e
          /\ IF pc = "fetching"
             THEN pc' = "rejected" /\ error' = e
             ELSE UNCHANGED <<pc, error>>
    /\ depState' = "rejected"
    /\ UNCHANGED <<isCloudEnabled, apmState, probeState, apmErr, probeErr, deprecations,
                   apmIndexDeprecations, cluster, indices, indexNames, indexStates,
                   depCalls, apmCalls, probeCalls, result>>

\* line 24: getDeprecatedApmIndices resolves
ApmResolve ==
    /\ apmState = "pending"
    /\ \E ka \in 0..(MaxWarnings - Size(deprecations)) :
       \E a \in [1..ka -> CallApmWarnings] :
          apmIndexDeprecations' = a
    /\ apmState' = "resolved"
    /\ UNCHANGED <<pc, isCloudEnabled, depState, probeState, depErr, apmErr, probeErr,
                   deprecations, cluster, indices, indexNames, indexStates,
                   depCalls, apmCalls, probeCalls, error, result>>

\* lines 19-25: getDeprecatedApmIndices rejects
ApmReject ==
    /\ apmState = "pending"
    /\ \E e \in Errors :
          /\ apmErr' = e
          /\ IF pc = "fetching"
             THEN pc' = "rejected" /\ error' = e
             ELSE UNCHANGED <<pc, error>>
    /\ apmState' = "rejected"
    /\ UNCHANGED <<isCloudEnabled, depState, probeState, depErr, probeErr, deprecations,
                   apmIndexDeprecations, cluster, indices, indexNames, indexStates,
                   depCalls, apmCalls, probeCalls, result>>

\* lines 27-38 and 46-52: after Promise.all resolves, up to the next await or
\* the return
Continue ==
    /\ pc = "fetching"
    /\ depState = "resolved" /\ apmState = "resolved"
    /\ cluster' = getClusterDeprecations(deprecations, isCloudEnabled)
    /\ indices' = getCombinedIndexInfos(deprecations, apmIndexDeprecations)
    /\ indexNames' = IndexNamesOf(indices')
    /\ IF ShouldProbe(indexNames')
       THEN /\ probeCalls' = probeCalls + 1
            /\ probeState' = "pending"
            /\ pc' = "probing"
            /\ UNCHANGED result
       ELSE /\ result' = UpgradeStatus(cluster', indices')
            /\ pc' = "done"
            /\ UNCHANGED <<probeCalls, probeState>>
    /\ UNCHANGED <<isCloudEnabled, depState, apmState, depErr, apmErr, probeErr,
                   deprecations, apmIndexDeprecations, indexStates, depCalls, apmCalls,
                   error>>

\* lines 35-52: the probe resolves; the entries are enriched and the status
\* is returned
ProbeResolve ==
    /\ pc = "probing"
    /\ probeState = "pending"
    /\ \E st \in ProbeResults(Range(indexNames)) : indexStates' = st
    /\ probeState' = "resolved"
    /\ indices' = EnrichWithState(indices, indexStates')
    /\ result' = UpgradeStatus(cluster, indices')
    /\ pc' = "done"
    /\ UNCHANGED <<isCloudEnabled, depState, apmState, depErr, apmErr, probeErr,
                   deprecations, apmIndexDeprecations, cluster, indexNames, depCalls,
                   apmCalls, probeCalls, error>>

ProbeReject_Swallow ==
    /\ pc = "probing"
    /\ probeState = "pending"
    /\ \E e \in Errors : probeErr' = e
    /\ probeState' = "rejected"
    /\ result' = UpgradeStatus(cluster, indices)
    /\ pc' = "done"
    /\ UNCHANGED <<isCloudEnabled, depState, apmState, depErr, apmErr, deprecations,
                   apmIndexDeprecations, cluster, indices, indexNames, indexStates,
                   depCalls, apmCalls, probeCalls, error>>

\* line 35: the awaited probe rejects; nothing catches it
ProbeReject ==
    /\ pc = "probing"
    /\ probeState = "pending"
    /\ \E e \in Errors : probeErr' = e /\ error' = e
    /\ probeState' = "rejected"
    /\ pc' = "rejected"
    /\ UNCHANGED <<isCloudEnabled, depState, apmState, depErr, apmErr, deprecations,
                   apmIndexDeprecations, cluster, indices, indexNames, indexStates,
                   depCalls, apmCalls, probeCalls, result>>

Next ==
    \/ Call
    \/ DepResolve
    \/ DepReject
    \/ ApmResolve
    \/ ApmReject
    \/ Continue
    \/ ProbeResolve
    \/ ProbeReject

Spec == Init /\ [][Next]_vars

----------------------------------------------------------------------------
(* getClusterDeprecations applied to every response within the bound *)

ClusterWarnings == {RawWarning(l, m) : l \in Levels, m \in {MsgRealm, MsgRealmMore, MsgOther}}

InitCluster ==
    /\ pc = "init"
    /\ isCloudEnabled \in BOOLEAN
    /\ depState = "resolved" /\ apmState = "idle" /\ probeState = "idle"
    /\ depErr = NoError /\ apmErr = NoError /\ probeErr = NoError
    /\ \E kc \in 0..MaxClusterWarnings :
       \E c \in [1..kc -> ClusterWarnings] :
       \E km \in 0..(MaxClusterWarnings - kc) :
       \E m \in [1..km -> ClusterWarnings] :
       \E kn \in 0..(MaxClusterWarnings - kc - km) :
       \E n \in [1..kn -> ClusterWarnings] :
          deprecations = ResponseOf(c, m, n, <<>>)
    /\ apmIndexDeprecations = <<>>
    /\ cluster = <<>> /\ indices = <<>> /\ indexNames = <<>>
    /\ indexStates = <<>>
    /\ depCalls = 1 /\ apmCalls = 0 /\ probeCalls = 0
    /\ error = NoError
    /\ result = NoResult

\* line 27
ApplyCluster ==
    /\ pc = "init"
    /\ cluster' = getClusterDeprecations(deprecations, isCloudEnabled)
    /\ pc' = "applied"
    /\ UNCHANGED <<isCloudEnabled, depState, apmState, probeState, depErr, apmErr,
                   probeErr, deprecations, apmIndexDeprecations, indices, indexNames,
                   indexStates, depCalls, apmCalls, probeCalls, error, result>>

NextCluster == ApplyCluster

SpecCluster == InitCluster /\ [][NextCluster]_vars

----------------------------------------------------------------------------
(* getCombinedIndexInfos applied to every pair of inputs within the bound *)

MergeIndexWarnings ==
    {RawWarning("warning", m) : m \in {MsgReindex, MsgReindexLower, MsgFields, MsgBoth}}
MergeApmWarnings ==
    ApmWarnings({"warning"}, {MsgApm, MsgReindex}, BOOLEAN \X BOOLEAN, {Undefined})

InitIndex ==
    /\ pc = "init"
    /\ isCloudEnabled = FALSE
    /\ depState = "resolved" /\ apmState = "resolved" /\ probeState = "idle"
    /\ depErr = NoError /\ apmErr = NoError /\ probeErr = NoError
    /\ \E ki \in 0..MaxMergeInputs :
       \E flat \in [1..ki -> IndexNames \X MergeIndexWarnings] :
       \E ka \in 0..(MaxMergeInputs - ki) :
       \E a \in [1..ka -> MergeApmWarnings] :
          /\ Grouped(flat)
          /\ deprecations = ResponseOf(<<>>, <<>>, <<>>, flat)
          /\ apmIndexDeprecations = a
    /\ cluster = <<>> /\ indices = <<>> /\ indexNames = <<>>
    /\ indexStates = <<>>
    /\ depCalls = 1 /\ apmCalls = 1 /\ probeCalls = 0
    /\ error = NoError
    /\ result = NoResult

\* line 28
ApplyMerge ==
    /\ pc = "init"
    /\ indices' = getCombinedIndexInfos(deprecations, apmIndexDeprecations)
    /\ pc' = "applied"
    /\ UNCHANGED <<isCloudEnabled, depState, apmState, probeState, depErr, apmErr,
                   probeErr, deprecations, apmIndexDeprecations, cluster, indexNames,
                   indexStates, depCalls, apmCalls, probeCalls, error, result>>

NextIndex == ApplyMerge

SpecIndex == InitIndex /\ [][NextIndex]_vars

----------------------------------------------------------------------------
(* Properties *)

Combined == deprecations.cluster_settings \o deprecations.ml_settings
            \o deprecations.node_settings

\* number of entries of indices that precede the appended APM entries
GeneralLen == Len(indices) - Len(apmIndexDeprecations)

KeyNames == {deprecations.index_settings[p].name : p \in 1..Len(deprecations.index_settings)}
KeyPos(name) == CHOOSE p \in 1..Len(deprecations.index_settings) :
                    deprecations.index_settings[p].name = name

\* the invocation is past Promise.all: lines 27-30 have run
Merged == depState = "resolved" /\ apmState = "resolved" /\ pc # "fetching" /\ pc # "init"

\* C1: in every returned status, readyForUpgrade is true exactly when no entry
\* of cluster followed by indices has level "critical".
C1_ReadyIffNoCritical ==
    result.returned =>
        (result.readyForUpgrade <=>
            /\ \A i \in 1..Len(result.cluster) : result.cluster[i].level # "critical"
            /\ \A i \in 1..Len(result.indices) : result.indices[i].level # "critical")

C1_Witness ==
    /\ result.returned
    /\ ~result.readyForUpgrade
    /\ \A i \in 1..Len(result.cluster) : result.cluster[i].level # "critical"
    /\ \E i \in 1..Len(result.indices) : result.indices[i].level = "critical"

\* C2: with the cloud flag set the cluster list holds no warning whose message
\* is exactly "Security realm settings structure changed"; without it the list
\* is the whole concatenation cluster_settings, ml_settings, node_settings; in
\* both cases the other warnings are all kept, in that order.
C2_CloudFilter ==
    pc = "applied" =>
        LET IsRealm(d) == d.message = MsgRealm
            NotRealm(d) == d.message # MsgRealm
        IN  /\ isCloudEnabled => \A i \in 1..Len(cluster) : cluster[i].message # MsgRealm
            /\ ~isCloudEnabled =>
                  /\ Len(cluster) = Len(Combined)
                  /\ SelectSeq(cluster, IsRealm) = SelectSeq(Combined, IsRealm)
            /\ SelectSeq(cluster, NotRealm) = SelectSeq(Combined, NotRealm)

C2_Witness ==
    /\ pc = "applied"
    /\ isCloudEnabled
    /\ \E i \in 1..Len(Combined) : Combined[i].message = MsgRealm
    /\ Len(cluster) = 2
    /\ cluster[1].message = MsgRealmMore
    /\ cluster[2].message = MsgOther

\* C3: for an index name that is a key of index_settings and the index of an
\* APM warning, the merged list holds no entry made from index_settings: its
\* entries for that index are exactly the APM warnings for it.
C3_ApmExclusion ==
    pc = "applied" =>
        \A n \in KeyNames \cap ApmIndexSet(apmIndexDeprecations) :
            LET ForN(e) == e.index = n
            IN  /\ \A i \in 1..GeneralLen : indices[i].index # n
                /\ SelectSeq(indices, ForN) = SelectSeq(apmIndexDeprecations, ForN)

C3_Witness ==
    /\ pc = "applied"
    /\ "idx1" \in KeyNames \cap ApmIndexSet(apmIndexDeprecations)
    /\ "idx2" \in KeyNames
    /\ GeneralLen = 1
    /\ indices[1].index = "idx2"

\* C4 as claimed: every entry of the indices list, the APM entries included,
\* has reindex true exactly when its message contains "Index created before".
C4_Original ==
    pc = "applied" =>
        \A i \in 1..Len(indices) :
            indices[i].reindex <=> Contains(indices[i].message, PatReindex)

\* C4 amended: every entry made from index_settings has reindex true exactly
\* when its message contains "Index created before"; an entry appended from
\* the APM lookup keeps the reindex value the lookup gave it.
C4_Amended ==
    pc = "applied" =>
        /\ \A i \in 1..GeneralLen :
              indices[i].reindex <=> Contains(indices[i].message, PatReindex)
        /\ \A i \in 1..Len(apmIndexDeprecations) :
              indices[GeneralLen + i].reindex = apmIndexDeprecations[i].reindex

C4_Witness ==
    /\ pc = "applied"
    /\ GeneralLen = 2
    /\ indices[1].reindex /\ indices[1].message = MsgReindex
    /\ ~indices[2].reindex /\ indices[2].message = MsgReindexLower
    /\ Len(indices) = 3
    /\ indices[3].reindex /\ indices[3].message = MsgApm

\* C5 as claimed: every entry of the indices list, the APM entries included,
\* has needsDefaultFields true exactly when its message contains "Number of
\* fields exceeds automatic field expansion limit".
C5_Original ==
    pc = "applied" =>
        \A i \in 1..Len(indices) :
            indices[i].needsDefaultFields <=> Contains(indices[i].message, PatFields)

\* C5 amended: every entry made from index_settings has needsDefaultFields true
\* exactly when its message contains "Number of fields exceeds automatic field
\* expansion limit"; an entry appended from the APM lookup keeps the
\* needsDefaultFields value the lookup gave it.
C5_Amended ==
    pc = "applied" =>
        /\ \A i \in 1..GeneralLen :
              indices[i].needsDefaultFields <=> Contains(indices[i].message, PatFields)
        /\ \A i \in 1..Len(apmIndexDeprecations) :
              indices[GeneralLen + i].needsDefaultFields
                  = apmIndexDeprecations[i].needsDefaultFields

C5_Witness ==
    /\ pc = "applied"
    /\ GeneralLen = 2
    /\ indices[1].needsDefaultFields /\ indices[1].message = MsgFields
    /\ ~indices[2].needsDefaultFields /\ indices[2].message = MsgReindex
    /\ Len(indices) = 3
    /\ indices[3].needsDefaultFields /\ indices[3].message = MsgApm

\* C6: when the merged index list is empty the probe is never called and the
\* invocation returns a status whose indices list is empty.
C6_NoProbeWhenEmpty ==
    (Merged /\ Len(indices) = 0) =>
        /\ probeCalls = 0
        /\ probeState = "idle"
        /\ pc = "done"
        /\ result.returned
        /\ result.indices = <<>>

C6_Witness ==
    /\ Merged
    /\ Len(indices) = 0
    /\ Len(deprecations.index_settings) > 0
    /\ result.returned

\* C7: once the probe has answered, an entry's blockerForReindexing is
\* "index-closed" exactly when the probe reported "close" for its index and is
\* undefined otherwise, whatever it was before; levels and readyForUpgrade do
\* not depend on the reported states.
C7_BlockerFromState ==
    probeState = "resolved" =>
        LET before == getCombinedIndexInfos(deprecations, apmIndexDeprecations)
        IN  /\ result.returned
            /\ result.indices = indices
            /\ Len(indices) = Len(before)
            /\ \A i \in 1..Len(indices) :
                  /\ indices[i].blockerForReindexing =
                        IF indices[i].index \in DOMAIN indexStates
                           /\ indexStates[indices[i].index] = "close"
                        THEN "index-closed" ELSE Undefined
                  /\ indices[i].level = before[i].level
            /\ result.readyForUpgrade <=>
                  /\ \A i \in 1..Len(cluster) : cluster[i].level # "critical"
                  /\ \A i \in 1..Len(before) : before[i].level # "critical"

C7_Witness ==
    /\ probeState = "resolved"
    /\ \E i \in 1..Len(apmIndexDeprecations) :
          /\ apmIndexDeprecations[i].blockerForReindexing = "index-closed"
          /\ indexStates[apmIndexDeprecations[i].index] = "open"
          /\ indices[GeneralLen + i].blockerForReindexing = Undefined
    /\ \E j \in 1..Len(indices) :
          /\ indexStates[indices[j].index] = "close"
          /\ indices[j].level = "warning"
    /\ \E j \in 1..Len(indices) : indexStates[indices[j].index] = "absent"
    /\ result.readyForUpgrade

C8_Inv ==
    /\ (depState = "rejected" \/ apmState = "rejected" \/ probeState = "rejected") =>
          pc = "rejected" /\ ~result.returned /\ error # NoError
    /\ (depState = "rejected" \/ apmState = "rejected") =>
          probeCalls = 0 /\ probeState = "idle"
    /\ (depState = "rejected" /\ apmState # "rejected") => error = depErr
    /\ (apmState = "rejected" /\ depState # "rejected") => error = apmErr
    /\ (depState = "rejected" /\ apmState = "rejected") => error \in {depErr, apmErr}
    /\ probeState = "rejected" => error = probeErr
    /\ depCalls <= 1 /\ apmCalls <= 1 /\ probeCalls <= 1

C8_Step ==
    /\ pc = "rejected" => (pc' = "rejected" /\ error' = error /\ result' = result)
    /\ depCalls' >= depCalls /\ apmCalls' >= apmCalls /\ probeCalls' >= probeCalls
    /\ (depState = "rejected" => depState' = "rejected" /\ depErr' = depErr)
    /\ (apmState = "rejected" => apmState' = "rejected" /\ apmErr' = apmErr)

\* C8: when the deprecations request, the APM lookup or the probe rejects, the
\* invocation rejects with that failure (the first one when both requests
\* reject) and returns nothing; a failed request keeps the probe from being
\* called; no collaborator is called twice and a rejection is final.
C8_RejectionPropagates == []C8_Inv /\ [][C8_Step]_vars

C8_Witness ==
    /\ probeState = "rejected"
    /\ pc = "rejected"
    /\ error = probeErr
    /\ probeCalls = 1
    /\ ~result.returned

\* C9 as claimed: with a non-empty merged list the probe is called exactly
\* once, with every referenced index name exactly once.
C9_Original ==
    (Merged /\ Len(indices) > 0) =>
        /\ probeCalls = 1
        /\ Range(indexNames) = {indices[i].index : i \in 1..Len(indices)}
        /\ \A i, j \in 1..Len(indexNames) : i # j => indexNames[i] # indexNames[j]

\* C9 amended: with a non-empty merged list the probe is called exactly once,
\* with one name per merged entry, in the order of the entries: an index that
\* several entries share is passed once per entry.
C9_Amended ==
    (Merged /\ Len(indices) > 0) =>
        /\ probeCalls = 1
        /\ Len(indexNames) = Len(indices)
        /\ \A i \in 1..Len(indices) : indexNames[i] = indices[i].index

C9_Witness ==
    /\ Merged
    /\ probeCalls = 1
    /\ Len(indexNames) = 3
    /\ indexNames[1] = indexNames[2]
    /\ indexNames[3] # indexNames[1]

\* C10: no entry made from index_settings belongs to a system index; the APM
\* warnings are the last entries of the merged list, all of them, in their
\* order and as the lookup gave them, system indices included; the entries
\* before them follow the key order of index_settings and, for each index, the
\* order of its raw warnings.
C10_MergeOrder ==
    pc = "applied" =>
        /\ GeneralLen >= 0
        /\ \A i \in 1..Len(apmIndexDeprecations) :
              indices[GeneralLen + i] = apmIndexDeprecations[i]
        /\ \A i \in 1..GeneralLen :
              /\ ~isSystemIndex(indices[i].index)
              /\ indices[i].index \in KeyNames
        /\ \A i, j \in 1..GeneralLen :
              i < j => KeyPos(indices[i].index) <= KeyPos(indices[j].index)
        /\ \A p \in 1..Len(deprecations.index_settings) :
              LET kv == deprecations.index_settings[p]
                  ForKey(e) == e.index = kv.name
                  mine == SelectSeq(SubSeq(indices, 1, GeneralLen), ForKey)
              IN  (~isSystemIndex(kv.name)
                   /\ kv.name \notin ApmIndexSet(apmIndexDeprecations)) =>
                      [i \in 1..Len(mine) |-> RawWarning(mine[i].level, mine[i].message)]
                          = kv.warnings

C10_Witness ==
    /\ pc = "applied"
    /\ Len(deprecations.index_settings) = 2
    /\ deprecations.index_settings[1].name = ".kibana"
    /\ deprecations.index_settings[2].name = "idx2"
    /\ GeneralLen = 1
    /\ Len(apmIndexDeprecations) = 1
    /\ indices[2].index = ".kibana"

====
